---- MODULE Spec2Model ----
(***************************************************************************)
(* Model of the colors extractor (src/main.rs): fetch one page, classify   *)
(* the selected paragraph nodes into Name / Rgb components, pair them into *)
(* Color records, format them as JSON, XML or CSV and print the document.  *)
(*                                                                         *)
(* Strings are sequences of characters; a character is a one-character     *)
(* string, a non-ASCII character is written by its code point ("U+00C9").  *)
(***************************************************************************)
EXTENDS Integers, Sequences, FiniteSets, TLC

VARIABLES pc, html, components, colors, args, data, stdout, stderr,
          exitCode, failure, steps, node, result

vars == <<pc, html, components, colors, args, data, stdout, stderr,
          exitCode, failure, steps, node, result>>

(***************************************************************************)
(* Bounds of the model.                                                    *)
(***************************************************************************)
\* longest page (number of selected nodes) the fetch may return
MaxNodes == 4
\* longest visible text given to color_extractor on its own
MaxTextLen == 3
\* longest digit run varied inside a title attribute
MaxDigits == 3

(***************************************************************************)
(* Characters.                                                             *)
(***************************************************************************)
AsciiUpper == <<"A", "B", "C", "D", "E", "F", "G", "H", "I", "J", "K", "L", "M",
                "N", "O", "P", "Q", "R", "S", "T", "U", "V", "W", "X", "Y", "Z">>

AsciiLower == <<"a", "b", "c", "d", "e", "f", "g", "h", "i", "j", "k", "l", "m",
                "n", "o", "p", "q", "r", "s", "t", "u", "v", "w", "x", "y", "z">>

AsciiDigit == <<"0", "1", "2", "3", "4", "5", "6", "7", "8", "9">>

Range(s) == {s[i] : i \in 1..Len(s)}

IndexOf(s, c) == CHOOSE i \in 1..Len(s) : s[i] = c

\* char::is_whitespace (Unicode White_Space), also the regex class \s
IsWhitespace(c) == c \in {" ", "\t", "\n", "\r", "U+00A0"}

\* char::is_ascii_alphanumeric
IsAsciiAlphanumeric(c) ==
    c \in Range(AsciiUpper) \cup Range(AsciiLower) \cup Range(AsciiDigit)

\* the regex class \d (Unicode decimal digits: the ASCII digits and others,
\* here ARABIC-INDIC DIGIT THREE)
IsRegexDigit(c) == c \in Range(AsciiDigit) \cup {"U+0663"}

\* the closure of the first replace: c == '(' || c == ')'
IsParen(c) == c = "(" \/ c = ")"

\* the lowercase mapping of one character (str::to_lowercase)
LowerChar(c) ==
    IF c \in Range(AsciiUpper) THEN AsciiLower[IndexOf(AsciiUpper, c)]
    ELSE IF c = "U+00C9" THEN "U+00E9"
    ELSE c

(***************************************************************************)
(* String helpers.                                                         *)
(***************************************************************************)
RECURSIVE Concat(_)
Concat(ss) == IF ss = <<>> THEN <<>> ELSE Head(ss) \o Concat(Tail(ss))

\* str::trim: drop the leading and the trailing whitespace
Trim(s) ==
    LET keep == {i \in 1..Len(s) : ~IsWhitespace(s[i])}
    IN  IF keep = {} THEN <<>>
        ELSE LET lo == CHOOSE i \in keep : \A j \in keep : i <= j
                 hi == CHOOSE i \in keep : \A j \in keep : j <= i
             IN  SubSeq(s, lo, hi)

\* str::replace(pattern, "") with the parenthesis closure
RemoveParens(s) == SelectSeq(s, LAMBDA c : ~IsParen(c))

\* str::replace(pattern, "_") with the closure !c.is_ascii_alphanumeric()
ReplaceNonAlnum(s) ==
    [i \in 1..Len(s) |-> IF IsAsciiAlphanumeric(s[i]) THEN s[i] ELSE "_"]

\* str::to_lowercase
ToLowercase(s) == [i \in 1..Len(s) |-> LowerChar(s[i])]

\* char::is_alphanumeric, the Unicode class (a letter such as U+00C9 is in it)
IsAlphanumeric(c) == IsAsciiAlphanumeric(c) \/ c \in {"U+00C9", "U+00E9"}

\* variant: the second replace tests is_alphanumeric, not is_ascii_alphanumeric
NormalizeUnicodeAlnum(s) ==
    ToLowercase([i \in 1..Len(RemoveParens(s)) |->
                    IF IsAlphanumeric(RemoveParens(s)[i])
                    THEN RemoveParens(s)[i] ELSE "_"])

\* the chain of lines 140-144 applied to the trimmed text
Normalize(s) == ToLowercase(ReplaceNonAlnum(RemoveParens(s)))

(***************************************************************************)
(* u8 values: parsing and display.                                         *)
(***************************************************************************)
U8Max == 255

\* str::parse::<u8>: every character must be an ASCII digit, and the value
\* is accumulated with checked arithmetic
RECURSIVE ParseFrom(_, _, _)
ParseFrom(s, i, acc) ==
    IF i > Len(s) THEN [ok |-> TRUE, value |-> acc, kind |-> "none"]
    ELSE IF s[i] \notin Range(AsciiDigit)
         THEN [ok |-> FALSE, value |-> 0, kind |-> "InvalidDigit"]
    ELSE LET next == acc * 10 + (IndexOf(AsciiDigit, s[i]) - 1)
         IN  IF next > U8Max
             THEN [ok |-> FALSE, value |-> 0, kind |-> "PosOverflow"]
             ELSE ParseFrom(s, i + 1, next)

\* variant: the value wraps modulo 256 instead of failing
RECURSIVE WrapFrom(_, _, _)
WrapFrom(s, i, acc) ==
    IF i > Len(s) THEN [ok |-> TRUE, value |-> acc, kind |-> "none"]
    ELSE IF s[i] \notin Range(AsciiDigit)
         THEN [ok |-> FALSE, value |-> 0, kind |-> "InvalidDigit"]
    ELSE WrapFrom(s, i + 1, (acc * 10 + (IndexOf(AsciiDigit, s[i]) - 1)) % (U8Max + 1))

ParseU8Wrapping(s) ==
    IF s = <<>> THEN [ok |-> FALSE, value |-> 0, kind |-> "Empty"]
    ELSE WrapFrom(s, 1, 0)

ParseU8(s) ==
    IF s = <<>> THEN [ok |-> FALSE, value |-> 0, kind |-> "Empty"]
    ELSE ParseFrom(s, 1, 0)

\* Display for u8: the decimal digits without leading zeros
RECURSIVE ToDecimal(_)
ToDecimal(n) ==
    IF n < 10 THEN <<AsciiDigit[n + 1]>>
    ELSE ToDecimal(n \div 10) \o <<AsciiDigit[(n % 10) + 1]>>

(***************************************************************************)
(* The pattern matcher: token \s+ \( (\d+) \s+ (\d+) \s+ (\d+) \)          *)
(***************************************************************************)
\* the literal token that opens color_data_regex (the stylized letters
\* R, G, B of the page)
RgbToken == <<"U+1D5E5", "U+1D5DA", "U+1D5D5">>

\* the position after the longest run of whitespace from i on (\s+ is greedy)
WhitespaceRunEnd(s, i) ==
    CHOOSE j \in i..(Len(s) + 1) :
        /\ \A k \in i..(j - 1) : IsWhitespace(s[k])
        /\ j = Len(s) + 1 \/ ~IsWhitespace(s[j])

\* the position after the longest run of digits from i on (\d+ is greedy)
DigitRunEnd(s, i) ==
    CHOOSE j \in i..(Len(s) + 1) :
        /\ \A k \in i..(j - 1) : IsRegexDigit(s[k])
        /\ j = Len(s) + 1 \/ ~IsRegexDigit(s[j])

IsCharAt(s, i, c) == i <= Len(s) /\ s[i] = c

\* the match of the pattern that starts at position i, if there is one
MatchAt(s, i) ==
    LET t  == i + Len(RgbToken)
        w0 == WhitespaceRunEnd(s, t)
        r0 == w0 + 1
        r1 == DigitRunEnd(s, r0)
        g0 == WhitespaceRunEnd(s, r1)
        g1 == DigitRunEnd(s, g0)
        b0 == WhitespaceRunEnd(s, g1)
        b1 == DigitRunEnd(s, b0)
    IN  IF /\ t - 1 <= Len(s)
           /\ SubSeq(s, i, t - 1) = RgbToken
           /\ w0 > t
           /\ IsCharAt(s, w0, "(")
           /\ r1 > r0
           /\ g0 > r1
           /\ g1 > g0
           /\ b0 > g1
           /\ b1 > b0
           /\ IsCharAt(s, b1, ")")
        THEN [found |-> TRUE,
              red   |-> SubSeq(s, r0, r1 - 1),
              green |-> SubSeq(s, g0, g1 - 1),
              blue  |-> SubSeq(s, b0, b1 - 1)]
        ELSE [found |-> FALSE, red |-> <<>>, green |-> <<>>, blue |-> <<>>]

\* Regex::captures: the leftmost match
Captures(s) ==
    LET starts == {i \in 1..Len(s) : MatchAt(s, i).found}
    IN  IF starts = {} THEN MatchAt(s, Len(s) + 1)
        ELSE MatchAt(s, CHOOSE i \in starts : \A j \in starts : i <= j)

(***************************************************************************)
(* Nodes and components.                                                   *)
(***************************************************************************)
\* Option<&str> as returned by ElementRef::attr
NoAttr == <<>>
SomeAttr(s) == <<s>>

\* a selected element: its concatenated text and its title attribute
Element(text, title) == [text |-> text, title |-> title]

\* enum Component, and the unwinding of a failed unwrap()
Name(s) == [tag |-> "Name", name |-> s, red |-> 0, green |-> 0, blue |-> 0]
Rgb(r, g, b) == [tag |-> "Rgb", name |-> <<>>, red |-> r, green |-> g, blue |-> b]
Panic(kind) == [tag |-> "Panic", name |-> kind, red |-> 0, green |-> 0, blue |-> 0]

\* the three parse::<u8>().unwrap() calls, in order
RgbOfCaptures(caps) ==
    LET red   == ParseU8(caps.red)
        green == ParseU8(caps.green)
        blue  == ParseU8(caps.blue)
    IN  IF ~red.ok THEN Panic(<<red.kind>>)
        ELSE IF ~green.ok THEN Panic(<<green.kind>>)
        ELSE IF ~blue.ok THEN Panic(<<blue.kind>>)
        ELSE Rgb(red.value, green.value, blue.value)

\* variant: the branch tests the text before it is trimmed
BranchTextUntrimmed(e) == e.text

\* the text the closure branches on
BranchText(e) == Trim(e.text)

\* the closure color_extractor
ColorExtractor(e) ==
    LET text == BranchText(e)
    IN  IF text = <<>>
        THEN IF e.title = NoAttr THEN Panic(<<"MissingAttribute">>)
             ELSE LET caps == Captures(e.title[1])
                  IN  IF ~caps.found THEN Panic(<<"PatternNotFound">>)
                      ELSE RgbOfCaptures(caps)
        ELSE Name(Normalize(text))

(***************************************************************************)
(* The record assembler: nodes.chunks(2).map(...).collect()                *)
(***************************************************************************)
ChunkSize == 2

Min(a, b) == IF a <= b THEN a ELSE b

\* variant: slice::chunks_exact(n), which leaves the remainder out
ChunksExact(s, n) ==
    [k \in 1..(Len(s) \div n) |-> SubSeq(s, (k - 1) * n + 1, k * n)]

\* slice::chunks(n): consecutive non-overlapping slices of n elements; when n
\* does not divide the length the last slice is the shorter remainder
Chunks(s, n) ==
    [k \in 1..((Len(s) + n - 1) \div n) |->
        SubSeq(s, (k - 1) * n + 1, Min(k * n, Len(s)))]

\* struct Color
Color(name, red, green, blue) ==
    [name |-> name, red |-> red, green |-> green, blue |-> blue]

\* the value `color` starts from in the closure
DefaultColor == Color(<<>>, 0, 0, 0)

\* variant: the red and the blue channel are exchanged
MergeComponentSwapped(color, component) ==
    IF component.tag = "Name"
    THEN [color EXCEPT !.name = component.name]
    ELSE [color EXCEPT !.red = component.blue,
                       !.green = component.green,
                       !.blue = component.red]

\* variant: a field that an earlier member has set is kept
MergeComponentKeepFirst(color, component) ==
    IF component.tag = "Name"
    THEN IF color.name = <<>> THEN [color EXCEPT !.name = component.name] ELSE color
    ELSE IF color.red = 0 /\ color.green = 0 /\ color.blue = 0
         THEN [color EXCEPT !.red = component.red,
                            !.green = component.green,
                            !.blue = component.blue]
         ELSE color

\* one arm of the match on a component
MergeComponent(color, component) ==
    IF component.tag = "Name"
    THEN [color EXCEPT !.name = component.name]
    ELSE [color EXCEPT !.red = component.red,
                       !.green = component.green,
                       !.blue = component.blue]

\* for component in pair.iter() { match component ... }
RECURSIVE MergeFrom(_, _, _)
MergeFrom(color, pair, i) ==
    IF i > Len(pair) THEN color
    ELSE MergeFrom(MergeComponent(color, pair[i]), pair, i + 1)

ColorOfPair(pair) == MergeFrom(DefaultColor, pair, 1)

Assemble(comps) ==
    LET pairs == Chunks(comps, ChunkSize)
    IN  [k \in 1..Len(pairs) |-> ColorOfPair(pairs[k])]

(***************************************************************************)
(* The formatters.                                                         *)
(***************************************************************************)
\* writeln!: the text and a line feed
Line(s) == s \o <<"\n">>

CsvHeader ==
    <<"n", "a", "m", "e", ",", "r", "e", "d", ",",
      "g", "r", "e", "e", "n", ",", "b", "l", "u", "e">>

CsvRecord(color) ==
    color.name \o <<",">> \o ToDecimal(color.red) \o <<",">>
        \o ToDecimal(color.green) \o <<",">> \o ToDecimal(color.blue)

\* variant: the header is written without its line feed (write!, not writeln!)
GenerateCsvHeaderUnterminated(nodes) ==
    CsvHeader \o Concat([i \in 1..Len(nodes) |-> Line(CsvRecord(nodes[i]))])

GenerateCsv(nodes) ==
    Line(CsvHeader)
        \o Concat([i \in 1..Len(nodes) |-> Line(CsvRecord(nodes[i]))])

\* the raw string of line 102: its text starts and ends with a quotation mark
XmlProlog ==
    <<"\"", "<", "?", "x", "m", "l", " ", "v", "e", "r", "s", "i", "o", "n",
      "=", "\"", "1", ".", "0", "\"", " ", "e", "n", "c", "o", "d", "i", "n",
      "g", "=", "\"", "U", "T", "F", "-", "8", "\"", "?", ">", "\"">>

XmlOpen == <<"<", "c", "o", "l", "o", "r", "s", ">">>

XmlClose == <<"<", "/", "c", "o", "l", "o", "r", "s", ">">>

XmlRecord(color) ==
    <<" ", " ", "<", "c", "o", "l", "o", "r", " ", "n", "a", "m", "e", "=", "\"">>
        \o color.name
        \o <<"\"", " ", "r", "e", "d", "=", "\"">> \o ToDecimal(color.red)
        \o <<"\"", " ", "g", "r", "e", "e", "n", "=", "\"">> \o ToDecimal(color.green)
        \o <<"\"", " ", "b", "l", "u", "e", "=", "\"">> \o ToDecimal(color.blue)
        \o <<"\"", " ", "/", ">">>

GenerateXml(nodes) ==
    Line(XmlProlog) \o Line(XmlOpen)
        \o Concat([i \in 1..Len(nodes) |-> Line(XmlRecord(nodes[i]))])
        \o Line(XmlClose)

JsonRecord(color) ==
    <<" ", " ", "{", "\"", "n", "a", "m", "e", "\"", ":", "\"">> \o color.name
        \o <<"\"", ",", "\"", "r", "e", "d", "\"", ":">> \o ToDecimal(color.red)
        \o <<",", "\"", "g", "r", "e", "e", "n", "\"", ":">> \o ToDecimal(color.green)
        \o <<",", "\"", "b", "l", "u", "e", "\"", ":">> \o ToDecimal(color.blue)
        \o <<"}">>

\* index counts from zero in the source: index < nodes.len() - 1
GenerateJson(nodes) ==
    Line(<<"[">>)
        \o Concat([i \in 1..Len(nodes) |->
                     JsonRecord(nodes[i])
                         \o (IF i - 1 < Len(nodes) - 1 THEN Line(<<",">>) ELSE <<>>)])
        \o Line(<<>>) \o Line(<<"]">>)

\* the match on args.format
Generate(format, nodes) ==
    CASE format = "Json" -> GenerateJson(nodes)
      [] format = "Xml"  -> GenerateXml(nodes)
      [] format = "Csv"  -> GenerateCsv(nodes)

(***************************************************************************)
(* The command line: CommandLine::parse()                                  *)
(***************************************************************************)
\* the outcome of a successful parse, of a usage error (printed on standard
\* error, exit status 2) and of a help or version request (printed on
\* standard output, exit status 0)
ParsedOk(format) == [kind |-> "Ok", format |-> format]
UsageError == [kind |-> "Error", format |-> "none"]
Display(what) == [kind |-> what, format |-> "none"]

\* enum OutputFormat through ValueEnum: the value names, matched by case
FormatOfValue(v) ==
    CASE v = "json" -> ParsedOk("Json")
      [] v = "xml"  -> ParsedOk("Xml")
      [] v = "csv"  -> ParsedOk("Csv")
      [] OTHER      -> UsageError

\* the outcomes of parsing one argument vector; without the option the
\* result rests on how the parser treats a required option that has a
\* default, so both outcomes are kept
ParseOutcomes(argv) ==
    IF argv = <<>> THEN {ParsedOk("Csv"), UsageError}
    ELSE IF argv = <<"--help">> THEN {Display("DisplayHelp")}
    ELSE IF argv = <<"--version">> THEN {Display("DisplayVersion")}
    ELSE IF Len(argv) = 2 /\ argv[1] \in {"--format", "-f"}
         THEN {FormatOfValue(argv[2])}
    ELSE {UsageError}

\* what a help or version request writes (the text itself is the parser's)
RenderedText(kind) == <<kind>>

(***************************************************************************)
(* Inputs.                                                                 *)
(***************************************************************************)
SeqsUpTo(S, n) == UNION {[1..k -> S] : k \in 0..n}

ArgvSet ==
    {<<>>, <<"--format", "json">>, <<"-f", "xml">>, <<"--format", "csv">>,
     <<"--format", "yaml">>, <<"--format", "JSON">>, <<"--help">>,
     <<"--version">>, <<"--fmt", "csv">>}

\* a title attribute of the page's form
Title(r, g, b) ==
    RgbToken \o <<" ", "(">> \o r \o <<" ">> \o g \o <<" ">> \o b \o <<")">>

\* the nodes a fetched page is made of
PageNodes ==
    {Element(<<"L", "i", "g", "h", "t", " ", "C", "o", "r", "a", "l">>, NoAttr),
     Element(<<" ", "S", "k", "y", " ", "(", "X", "1", "1", ")", "\n">>,
             SomeAttr(Title(<<"1">>, <<"2">>, <<"3">>))),
     Element(<<>>, SomeAttr(Title(<<"2", "4", "0">>, <<"1", "2", "8">>,
                                  <<"1", "2", "8">>))),
     Element(<<" ", "\n">>, SomeAttr(Title(<<"0">>, <<"2", "5", "5">>, <<"0", "9">>))),
     Element(<<>>, NoAttr),
     Element(<<" ">>, SomeAttr(<<"R", "G", "B", " ", "(", "1", " ", "2", " ", "3", ")">>)),
     Element(<<>>, SomeAttr(Title(<<"2", "5", "6">>, <<"0">>, <<"0">>)))}

Pages == SeqsUpTo(PageNodes, MaxNodes)

\* the nodes color_extractor is applied to on its own
TextAlphabet == {" ", "(", ")", "A", "b", "7", "-", "U+00C9"}

DigitAlphabet == {"0", "2", "5", "6"}

Texts == SeqsUpTo(TextAlphabet, MaxTextLen)

DigitRuns == SeqsUpTo(DigitAlphabet, MaxDigits) \ {<<>>}

FixedRuns == {<<"0">>, <<"2", "5", "5">>}

WellFormedTitles ==
    {Title(r, g, b) : r \in DigitRuns, g \in FixedRuns, b \in FixedRuns}
        \cup {Title(r, g, b) : r \in FixedRuns, g \in DigitRuns, b \in FixedRuns}
        \cup {Title(r, g, b) : r \in FixedRuns, g \in FixedRuns, b \in DigitRuns}

OtherTitles ==
    {<<>>,
     <<"R", "G", "B", " ", "(", "1", " ", "2", " ", "3", ")">>,
     RgbToken \o <<"(", "1", " ", "2", " ", "3", ")">>,
     RgbToken \o <<" ", "(", "1", " ", "2", ")">>,
     RgbToken \o <<" ", "(", "1", " ", "2", " ", "3">>,
     RgbToken \o <<" ", "(", "1", ",", "2", ",", "3", ")">>,
     Title(<<"U+0663">>, <<"2">>, <<"1">>),
     Title(<<"1">>, <<"2", "U+0663">>, <<"9", "9", "9">>),
     Title(<<"9", "9", "9">>, <<"U+0663">>, <<"1">>),
     <<"#", " ">> \o Title(<<"1", "0">>, <<"2", "0">>, <<"3", "0">>) \o <<" ", ";">>,
     RgbToken \o <<"\t", "\n", "(", "1", " ", " ", "2", "U+00A0", "3", ")">>,
     RgbToken \o <<" ">> \o Title(<<"4">>, <<"5">>, <<"6">>)
         \o Title(<<"7">>, <<"8">>, <<"9">>)}

ExtractNodes ==
    {Element(t, a) : t \in Texts,
                     a \in {NoAttr, SomeAttr(Title(<<"1">>, <<"2">>, <<"3">>))}}
        \cup {Element(t, SomeAttr(a)) : t \in {<<>>, <<" ", "\n">>},
                                        a \in WellFormedTitles \cup OtherTitles}

(***************************************************************************)
(* The run of main.                                                        *)
(***************************************************************************)
NotExited == <<>>
Exited(code) == <<code>>

\* exit statuses: main returning Err, a panic, a usage error, success
ExitOfError == 1
ExitOfPanic == 101
ExitOfUsage == 2
ExitOfSuccess == 0

\* variant: main parses the command line before it loads the colors
AfterStepArgsFirst(step) ==
    CASE step = "fetch"      -> "parse_args"
      [] step = "parse_args" -> "classify"
      [] step = "assemble"   -> "format"
      [] step = "format"     -> "print"
      [] step = "print"      -> "exited"

\* the statement that follows a finished step of main and load_colors
AfterStep(step) ==
    CASE step = "fetch"      -> "classify"
      [] step = "assemble"   -> "parse_args"
      [] step = "parse_args" -> "format"
      [] step = "format"     -> "print"
      [] step = "print"      -> "exited"

Init ==
    /\ pc = "fetch"
    /\ html = <<>>
    /\ components = <<>>
    /\ colors = <<>>
    /\ args = "none"
    /\ data = <<>>
    /\ stdout = <<>>
    /\ stderr = <<>>
    /\ exitCode = NotExited
    /\ failure = "none"
    /\ steps = <<>>
    /\ node = Element(<<>>, NoAttr)
    /\ result = Panic(<<"pending">>)

\* variant: the error is reported and the process still ends with success
AbortWithSuccess(kind, code) ==
    /\ pc' = "exited"
    /\ failure' = kind
    /\ stderr' = Append(stderr, kind)
    /\ exitCode' = Exited(ExitOfSuccess)

\* the process ends on an error: the message goes to standard error and the
\* exit status is not zero
Abort(kind, code) ==
    /\ pc' = "exited"
    /\ failure' = kind
    /\ stderr' = Append(stderr, kind)
    /\ exitCode' = Exited(code)

\* client.get(URL).send().await?.text().await? succeeds with a page
FetchOk ==
    /\ pc = "fetch"
    /\ \E page \in Pages : html' = page
    /\ pc' = AfterStep("fetch")
    /\ steps' = Append(steps, "fetch")
    /\ UNCHANGED <<components, colors, args, data, stdout, stderr, exitCode,
                   failure, node, result>>

\* the request or the body read fails
FetchErr ==
    /\ pc = "fetch"
    /\ Abort("FetchError", ExitOfError)
    /\ steps' = Append(steps, "fetch")
    /\ UNCHANGED <<html, components, colors, args, data, stdout, node, result>>

\* one turn of select(..).map(color_extractor).collect()
ClassifyNode ==
    /\ pc = "classify"
    /\ Len(components) < Len(html)
    /\ steps' = Append(steps, "classify")
    /\ LET c == ColorExtractor(html[Len(components) + 1])
       IN  IF c.tag = "Panic"
           THEN /\ Abort(c.name[1], ExitOfPanic)
                /\ UNCHANGED components
           ELSE /\ components' = Append(components, c)
                /\ UNCHANGED <<pc, failure, stderr, exitCode>>
    /\ UNCHANGED <<html, colors, args, data, stdout, node, result>>

\* nodes.chunks(2).map(..).collect(), and load_colors returns
AssembleStep ==
    /\ pc = "classify"
    /\ Len(components) = Len(html)
    /\ colors' = Assemble(components)
    /\ pc' = AfterStep("assemble")
    /\ steps' = Append(steps, "assemble")
    /\ UNCHANGED <<html, components, args, data, stdout, stderr, exitCode,
                   failure, node, result>>

\* CommandLine::parse(): returns the arguments or ends the process itself
ParseArgs ==
    /\ pc = "parse_args"
    /\ steps' = Append(steps, "parse_args")
    /\ \E argv \in ArgvSet : \E o \in ParseOutcomes(argv) :
         CASE o.kind = "Ok" ->
                /\ args' = o.format
                /\ pc' = AfterStep("parse_args")
                /\ UNCHANGED <<stdout, stderr, exitCode, failure>>
           [] o.kind = "Error" ->
                /\ Abort("UsageError", ExitOfUsage)
                /\ UNCHANGED <<args, stdout>>
           [] OTHER ->
                /\ stdout' = Append(stdout, RenderedText(o.kind))
                /\ pc' = "exited"
                /\ exitCode' = Exited(ExitOfSuccess)
                /\ failure' = o.kind
                /\ UNCHANGED <<args, stderr>>
    /\ UNCHANGED <<html, components, colors, data, node, result>>

\* the match on args.format
FormatStep ==
    /\ pc = "format"
    /\ data' = Generate(args, colors)
    /\ pc' = AfterStep("format")
    /\ steps' = Append(steps, "format")
    /\ UNCHANGED <<html, components, colors, args, stdout, stderr, exitCode,
                   failure, node, result>>

\* println!("{}", data); Ok(())
PrintStep ==
    /\ pc = "print"
    /\ stdout' = Append(stdout, Line(data))
    /\ pc' = AfterStep("print")
    /\ exitCode' = Exited(ExitOfSuccess)
    /\ steps' = Append(steps, "print")
    /\ UNCHANGED <<html, components, colors, args, data, stderr, failure,
                   node, result>>

Next ==
    \/ FetchOk
    \/ FetchErr
    \/ ClassifyNode
    \/ AssembleStep
    \/ ParseArgs
    \/ FormatStep
    \/ PrintStep

Spec == Init /\ [][Next]_vars

(***************************************************************************)
(* color_extractor on one node of any shape.                               *)
(***************************************************************************)
ExtractInit ==
    /\ pc = "extract"
    /\ html = <<>>
    /\ components = <<>>
    /\ colors = <<>>
    /\ args = "none"
    /\ data = <<>>
    /\ stdout = <<>>
    /\ stderr = <<>>
    /\ exitCode = NotExited
    /\ failure = "none"
    /\ steps = <<>>
    /\ node \in ExtractNodes
    /\ result = Panic(<<"pending">>)

Extract ==
    /\ pc = "extract"
    /\ result' = ColorExtractor(node)
    /\ pc' = "extracted"
    /\ UNCHANGED <<html, components, colors, args, data, stdout, stderr,
                   exitCode, failure, steps, node>>

ExtractNext == Extract

ExtractSpec == ExtractInit /\ [][ExtractNext]_vars

(***************************************************************************)
(* The name normalization on one string of any shape.                      *)
(***************************************************************************)
NormalizeInit ==
    /\ pc = "normalize"
    /\ html = <<>>
    /\ components = <<>>
    /\ colors = <<>>
    /\ args = "none"
    /\ data = <<>>
    /\ stdout = <<>>
    /\ stderr = <<>>
    /\ exitCode = NotExited
    /\ failure = "none"
    /\ steps = <<>>
    /\ node \in {Element(t, NoAttr) : t \in Texts}
    /\ result = Panic(<<"pending">>)

NormalizeStep ==
    /\ pc = "normalize"
    /\ result' = Name(Normalize(node.text))
    /\ pc' = "normalized"
    /\ UNCHANGED <<html, components, colors, args, data, stdout, stderr,
                   exitCode, failure, steps, node>>

NormalizeNext == NormalizeStep

NormalizeSpec == NormalizeInit /\ [][NormalizeNext]_vars

(***************************************************************************)
(* Notions the properties are stated in.                                   *)
(***************************************************************************)
Occurred(step) == \E i \in 1..Len(steps) : steps[i] = step

Assembled == Occurred("assemble")

Formatted == Occurred("format")

\* the failures of the fetch and of the classification of a node
FatalKinds ==
    {"FetchError", "MissingAttribute", "PatternNotFound", "InvalidDigit",
     "PosOverflow", "Empty"}

IsBlank(s) == \A i \in 1..Len(s) : IsWhitespace(s[i])

DecimalDigits == {"0", "1", "2", "3", "4", "5", "6", "7", "8", "9"}

DigitValue(c) ==
    CASE c = "0" -> 0 [] c = "1" -> 1 [] c = "2" -> 2 [] c = "3" -> 3
      [] c = "4" -> 4 [] c = "5" -> 5 [] c = "6" -> 6 [] c = "7" -> 7
      [] c = "8" -> 8 [] c = "9" -> 9

AllDecimal(s) == \A i \in 1..Len(s) : s[i] \in DecimalDigits

\* the number a run of decimal digits denotes
RECURSIVE DecimalValue(_)
DecimalValue(s) ==
    IF s = <<>> THEN 0
    ELSE 10 * DecimalValue(SubSeq(s, 1, Len(s) - 1)) + DigitValue(s[Len(s)])

\* a decimal numeral as Display writes it: no sign, no leading zero
CanonicalDecimal(s) ==
    /\ s # <<>>
    /\ AllDecimal(s)
    /\ Len(s) > 1 => s[1] # "0"

\* the pieces of s between the occurrences of sep
RECURSIVE SplitOn(_, _)
SplitOn(s, sep) ==
    IF \A i \in 1..Len(s) : s[i] # sep THEN <<s>>
    ELSE LET i == CHOOSE i \in 1..Len(s) :
                      s[i] = sep /\ \A j \in 1..(i - 1) : s[j] # sep
         IN  <<SubSeq(s, 1, i - 1)>> \o SplitOn(SubSeq(s, i + 1, Len(s)), sep)

\* the lines of a text; a line feed ends a line
Lines(s) ==
    LET pieces == SplitOn(s, "\n")
    IN  IF pieces[Len(pieces)] = <<>>
        THEN SubSeq(pieces, 1, Len(pieces) - 1)
        ELSE pieces

EndsWithLineFeed(s) == s # <<>> /\ s[Len(s)] = "\n"

\* every way the pattern  token \s+ ( digits \s+ digits \s+ digits )  lies in s
WhitespaceIn(s, lo, hi) == lo <= hi /\ \A k \in lo..hi : IsWhitespace(s[k])

DigitsIn(s, lo, hi) == lo <= hi /\ \A k \in lo..hi : IsRegexDigit(s[k])

PatternMatches(s) ==
    LET n == Len(s)
    IN  UNION {UNION {UNION {UNION {UNION {UNION {
          {[start |-> a,
            red   |-> SubSeq(s, p + 1, r),
            green |-> SubSeq(s, g, h),
            blue  |-> SubSeq(s, b, c)] :
             c \in {c \in b..(n - 1) : DigitsIn(s, b, c) /\ s[c + 1] = ")"}} :
             b \in {b \in (h + 2)..n : WhitespaceIn(s, h + 1, b - 1)}} :
             h \in {h \in g..n : DigitsIn(s, g, h)}} :
             g \in {g \in (r + 2)..n : WhitespaceIn(s, r + 1, g - 1)}} :
             r \in {r \in (p + 1)..n : DigitsIn(s, p + 1, r)}} :
             p \in {p \in (a + 4)..n : WhitespaceIn(s, a + 3, p - 1) /\ s[p] = "("}} :
             a \in {a \in 1..(n - 2) :
                      SubSeq(s, a, a + 2) = <<"U+1D5E5", "U+1D5DA", "U+1D5D5">>}}

\* the matches a leftmost search can report
LeftmostMatches(s) ==
    {m \in PatternMatches(s) : \A o \in PatternMatches(s) : m.start <= o.start}

U8Readable(s) == AllDecimal(s) /\ DecimalValue(s) <= 255

(***************************************************************************)
(* Properties.                                                             *)
(***************************************************************************)

\* C1 (as stated): once the records are assembled, a component sequence of
\* length L has given floor(L/2) records: an odd length 2n+1 gives n records,
\* the final unpaired component being dropped.
C1_RecordCountFloor ==
    Assembled => Len(colors) = Len(components) \div 2

\* the record a single component gives when nothing is merged with it
RecordOfLone(component) ==
    IF component.tag = "Name"
    THEN [name |-> component.name, red |-> 0, green |-> 0, blue |-> 0]
    ELSE [name |-> <<>>, red |-> component.red, green |-> component.green,
          blue |-> component.blue]

\* C1 (amended): once the records are assembled, a component sequence of
\* length L has given ceil(L/2) records: an odd length 2n+1 gives n+1 records,
\* and the last record is built from the final unpaired component alone, its
\* other field(s) at their defaults; no error is raised.
C1_RecordCountCeil ==
    Assembled =>
        /\ Len(colors) = (Len(components) + 1) \div 2
        /\ failure \notin FatalKinds
        /\ Len(components) % 2 = 1 =>
             colors[Len(colors)] = RecordOfLone(components[Len(components)])

\* an odd sequence of three components has been assembled into two records
C1_Witness ==
    /\ Assembled
    /\ Len(components) = 3
    /\ Len(colors) = 2

\* C2: every consecutive non-overlapping group of two components has its own
\* Color, at the group's position, and a group that holds one Name(s) and one
\* Rgb(r,g,b), in either order, gives exactly {name: s, red: r, green: g,
\* blue: b}.
C2_PairedRecords ==
    Assembled =>
        \A k \in 1..(Len(components) \div 2) :
            LET a == components[2 * k - 1]
                b == components[2 * k]
            IN  /\ k <= Len(colors)
                /\ a.tag = "Name" /\ b.tag = "Rgb" =>
                     colors[k] = [name |-> a.name, red |-> b.red,
                                  green |-> b.green, blue |-> b.blue]
                /\ a.tag = "Rgb" /\ b.tag = "Name" =>
                     colors[k] = [name |-> b.name, red |-> a.red,
                                  green |-> a.green, blue |-> a.blue]

\* two groups, the first Rgb then Name, the second Name then Rgb, whose
\* records differ
C2_Witness ==
    /\ Assembled
    /\ Len(components) = 4
    /\ components[1].tag = "Rgb" /\ components[2].tag = "Name"
    /\ components[3].tag = "Name" /\ components[4].tag = "Rgb"
    /\ colors[1] # colors[2]

\* C3: a group of two components of the same variant raises no error and
\* gives the second member's value, the other field(s) at their defaults:
\* Names (a, b) give {name: b, 0, 0, 0}, Rgb values (x, y) give
\* {name: "", red/green/blue of y}.
C3_SameVariantPair ==
    Assembled =>
        /\ failure \notin FatalKinds
        /\ \A k \in 1..(Len(components) \div 2) :
            LET a == components[2 * k - 1]
                b == components[2 * k]
            IN  /\ a.tag = "Name" /\ b.tag = "Name" =>
                     colors[k] = [name |-> b.name, red |-> 0, green |-> 0,
                                  blue |-> 0]
                /\ a.tag = "Rgb" /\ b.tag = "Rgb" =>
                     colors[k] = [name |-> <<>>, red |-> b.red,
                                  green |-> b.green, blue |-> b.blue]

\* a group of two different Names followed by a group of two different Rgbs
C3_Witness ==
    /\ Assembled
    /\ Len(components) = 4
    /\ components[1].tag = "Name" /\ components[2].tag = "Name"
    /\ components[1].name # components[2].name
    /\ components[3].tag = "Rgb" /\ components[4].tag = "Rgb"
    /\ components[3] # components[4]

\* a failed fetch or classification leaves standard output empty and ends
\* the process with a non-zero exit status
FailureIsSilent ==
    failure \in FatalKinds =>
        /\ stdout = <<>>
        /\ pc = "exited"
        /\ exitCode # NotExited
        /\ exitCode[1] # 0

\* standard output holds the complete document, written once
DocumentPrinted ==
    /\ Formatted
    /\ data = Generate(args, colors)
    /\ stdout = <<data \o <<"\n">>>>

\* C4 (as stated): a failed fetch or classification writes nothing to
\* standard output and ends with a non-zero exit; standard output is written
\* only in runs that end with exit status 0, exactly once and with the
\* complete document.
C4_AllOrNothing ==
    /\ FailureIsSilent
    /\ stdout # <<>> =>
         /\ pc = "exited"
         /\ exitCode = <<0>>
         /\ DocumentPrinted

\* C4 (amended): a failed fetch or classification writes nothing to standard
\* output and ends with a non-zero exit; standard output is written only in
\* runs that end with exit status 0, exactly once, and with the complete
\* document unless the command line asked for the help or the version text,
\* which is then the only thing written.
C4_AllOrNothingOrHelp ==
    /\ FailureIsSilent
    /\ stdout # <<>> =>
         /\ pc = "exited"
         /\ exitCode = <<0>>
         /\ Len(stdout) = 1
         /\ IF failure \in {"DisplayHelp", "DisplayVersion"}
            THEN ~Formatted /\ data = <<>>
            ELSE DocumentPrinted
    /\ pc = "exited" /\ exitCode = <<0>> => stdout # <<>>

\* the third node fails after two nodes were classified: nothing is printed
C4_Witness ==
    /\ failure = "PosOverflow"
    /\ Len(components) = 2
    /\ stdout = <<>>
    /\ exitCode = <<101>>

\* the result of a blank node whose title holds the readable triple m
RgbOfMatch(m) ==
    [tag |-> "Rgb", name |-> <<>>, red |-> DecimalValue(m.red),
     green |-> DecimalValue(m.green), blue |-> DecimalValue(m.blue)]

\* C5: a node whose text has a non-whitespace character always gives a Name,
\* whatever its title attribute; a node whose text is empty or whitespace
\* gives Rgb(r,g,b) when its title exists, matches the pattern and all three
\* captures read as u8, and fails otherwise.
C5_BranchOnTrimmedText ==
    pc = "extracted" =>
        IF ~IsBlank(node.text)
        THEN result.tag = "Name"
        ELSE IF node.title = <<>> THEN result = Panic(<<"MissingAttribute">>)
        ELSE IF LeftmostMatches(node.title[1]) = {}
             THEN result = Panic(<<"PatternNotFound">>)
        ELSE \A m \in LeftmostMatches(node.title[1]) :
                IF U8Readable(m.red) /\ U8Readable(m.green) /\ U8Readable(m.blue)
                THEN result = RgbOfMatch(m)
                ELSE result.tag = "Panic"

\* a whitespace-only, non-empty text has taken the Triple branch
C5_Witness ==
    /\ pc = "extracted"
    /\ node.text = <<" ", "\n">>
    /\ result.tag = "Rgb"
    /\ result.red = 255

NameCharacters ==
    {"a", "b", "c", "d", "e", "f", "g", "h", "i", "j", "k", "l", "m", "n", "o",
     "p", "q", "r", "s", "t", "u", "v", "w", "x", "y", "z", "0", "1", "2", "3",
     "4", "5", "6", "7", "8", "9", "_"}

\* C6: the normalization of any string holds only lowercase ASCII letters,
\* ASCII digits and underscores, and neither "(" nor ")".
C6_NormalizedCharacters ==
    pc = "normalized" =>
        \A i \in 1..Len(result.name) :
            /\ result.name[i] \in NameCharacters
            /\ result.name[i] \notin {"(", ")"}

\* a parenthesis, an uppercase letter and a non-ASCII letter were normalized
C6_Witness ==
    /\ pc = "normalized"
    /\ node.text = <<"(", "A", "U+00C9">>
    /\ result.name = <<"a", "_">>

\* C7: a captured digit run whose value exceeds 255 makes the classification
\* fail with the overflow error, never a wrapped value; every channel of an
\* Rgb equals the decimal value of its captured digits and lies in 0..255.
C7_NoWrapAround ==
    pc = "extracted" /\ IsBlank(node.text) /\ node.title # <<>> =>
        \A m \in LeftmostMatches(node.title[1]) :
            /\ result.tag = "Rgb" =>
                 /\ result.red = DecimalValue(m.red)
                 /\ result.green = DecimalValue(m.green)
                 /\ result.blue = DecimalValue(m.blue)
                 /\ {result.red, result.green, result.blue} \subseteq 0..255
            /\ (\E c \in {m.red, m.green, m.blue} :
                    AllDecimal(c) /\ DecimalValue(c) > 255) =>
                 /\ result.tag = "Panic"
                 /\ AllDecimal(m.red) /\ AllDecimal(m.green) /\ AllDecimal(m.blue) =>
                      result = Panic(<<"PosOverflow">>)

\* the capture "256" has failed the classification
C7_Witness ==
    /\ pc = "extracted"
    /\ IsBlank(node.text)
    /\ node.title # <<>>
    /\ \E m \in LeftmostMatches(node.title[1]) :
           m.green = <<"2", "5", "6">> /\ m.red = <<"2", "5", "5">>
    /\ result = Panic(<<"PosOverflow">>)

\* the line generate_csv writes for a record, read back field by field
IsCsvLineOf(line, color) ==
    LET f == SplitOn(line, ",")
    IN  /\ Len(f) = 4
        /\ f[1] = color.name
        /\ CanonicalDecimal(f[2]) /\ DecimalValue(f[2]) = color.red
        /\ CanonicalDecimal(f[3]) /\ DecimalValue(f[3]) = color.green
        /\ CanonicalDecimal(f[4]) /\ DecimalValue(f[4]) = color.blue

LightCoral == <<"l", "i", "g", "h", "t", "_", "c", "o", "r", "a", "l">>

\* C8: for k records generate_csv gives k+1 lines: the header
\* name,red,green,blue and, in record order, <name>,<red>,<green>,<blue>
\* with the name unquoted; [Name("light_coral"), Rgb(240,128,128)] gives the
\* header and light_coral,240,128,128.
C8_CsvDocument ==
    Formatted /\ args = "Csv" =>
        /\ EndsWithLineFeed(data)
        /\ Len(Lines(data)) = Len(colors) + 1
        /\ Lines(data)[1] = <<"n", "a", "m", "e", ",", "r", "e", "d", ",", "g",
                              "r", "e", "e", "n", ",", "b", "l", "u", "e">>
        /\ \A i \in 1..Len(colors) : IsCsvLineOf(Lines(data)[i + 1], colors[i])
        /\ components = <<Name(LightCoral), Rgb(240, 128, 128)>> =>
             Lines(data)[2] = LightCoral \o <<",", "2", "4", "0", ",", "1", "2",
                                               "8", ",", "1", "2", "8">>

\* the example of the specification, formatted as CSV
C8_Witness ==
    /\ Formatted
    /\ args = "Csv"
    /\ components = <<Name(LightCoral), Rgb(240, 128, 128)>>
    /\ Len(Lines(data)) = 2

XmlDeclaration ==
    <<"<", "?", "x", "m", "l", " ", "v", "e", "r", "s", "i", "o", "n", "=", "\"",
      "1", ".", "0", "\"", " ", "e", "n", "c", "o", "d", "i", "n", "g", "=", "\"",
      "U", "T", "F", "-", "8", "\"", "?", ">">>

\* the self-closing element of one record
ColorElement(color) ==
    <<"<", "c", "o", "l", "o", "r", " ", "n", "a", "m", "e", "=", "\"">>
        \o color.name
        \o <<"\"", " ", "r", "e", "d", "=", "\"">> \o ToDecimal(color.red)
        \o <<"\"", " ", "g", "r", "e", "e", "n", "=", "\"">> \o ToDecimal(color.green)
        \o <<"\"", " ", "b", "l", "u", "e", "=", "\"">> \o ToDecimal(color.blue)
        \o <<"\"", " ", "/", ">">>

\* C9: the document of generate_xml is a root <colors> element, preceded by
\* nothing other than an XML declaration, that holds exactly one self-closing
\* <color ... /> element per record, in record order, and nothing else.
C9_XmlDocument ==
    Formatted /\ args = "Xml" =>
        LET all  == Lines(data)
            body == IF all # <<>> /\ all[1] = XmlDeclaration THEN Tail(all) ELSE all
        IN  /\ Len(body) = Len(colors) + 2
            /\ body[1] = <<"<", "c", "o", "l", "o", "r", "s", ">">>
            /\ body[Len(body)] = <<"<", "/", "c", "o", "l", "o", "r", "s", ">">>
            /\ \A i \in 1..Len(colors) :
                   Trim(body[i + 1]) = ColorElement(colors[i])

\* the steps that may come right before a step
StepsBefore(step) ==
    CASE step = "fetch"      -> {}
      [] step = "classify"   -> {"fetch", "classify"}
      [] step = "assemble"   -> {"fetch", "classify"}
      [] step = "parse_args" -> {"assemble"}
      [] step = "format"     -> {"parse_args"}
      [] step = "print"      -> {"format"}

\* C10: the steps of a run happen in the order fetch, classify (once per
\* node), assemble, parse the command line, format, print, each at most once;
\* the command line is read only after the fetch and the extraction have
\* succeeded, so a bad --format value is reported only after the fetch, and a
\* failed fetch or extraction ends the run before the command line is read.
C10_StepOrder ==
    /\ steps # <<>> => steps[1] = "fetch"
    /\ \A i \in 2..Len(steps) : steps[i - 1] \in StepsBefore(steps[i])
    /\ Occurred("parse_args") =>
           /\ Len(components) = Len(html)
           /\ Cardinality({i \in 1..Len(steps) : steps[i] = "classify"}) = Len(html)
           /\ failure \notin FatalKinds
    /\ failure \in FatalKinds =>
           /\ pc = "exited"
           /\ ~Occurred("parse_args")
           /\ args = "none"
    /\ failure = "UsageError" => Occurred("fetch") /\ Occurred("assemble")

\* a bad --format value is reported after a page of two nodes was extracted
C10_Witness ==
    /\ failure = "UsageError"
    /\ steps = <<"fetch", "classify", "classify", "assemble", "parse_args">>

====
